---- MODULE Spec2Model ----
(***************************************************************************)
(* A model of chatbot_with_ctx_memory.py: the ChatBot session (transcript, *)
(* chat turn, summarization, save / load) and the command loop of main().  *)
(*                                                                         *)
(* Text is a sequence of one-character strings, so that slicing,           *)
(* concatenation, JSON escaping and parsing are computed as the program    *)
(* computes them.                                                          *)
(***************************************************************************)
EXTENDS Naturals, Sequences, FiniteSets

(***************************************************************************)
(* Bounds of the exploration.                                              *)
(***************************************************************************)
\* chat turns per run of the command loop
MaxTurns == 6
\* chat turns per run of the turn sequences
MaxTalkTurns == 5
\* failed turns, 'summary', 'save' and 'load' commands and restarts per run
MaxEvents == 2
\* lines of a 200 response in the single-call specification
MaxLines == 4
\* turns and other events per run of the persistence specification
MaxDiskTurns == 2
MaxDiskEvents == 3
\* messages of a transcript handed to summarize_messages on its own
MaxLen == 12
\* turns, and records the handlers fail to write, per run of the
\* specification with logging failures
MaxLogTurns == 2
MaxDrops == 2
\* turns and other events per run of the specification with file faults
MaxFaultTurns == 1
MaxFaultEvents == 4

(***************************************************************************)
(* Program constants.                                                      *)
(***************************************************************************)
\* self.messages[-5:]
KeepLast == 5
\* m["content"][:50]
TruncateAt == 50
\* if len(chatbot.messages) > 10
AutoThreshold == 10
\* if response.status_code == 200
StatusOK == 200

SeedContent == <<"H","e","l","l","o",","," ","h","o","w"," ","c","a","n"," ","I"," ","h","e","l","p"," ","y","o","u"," ","t","o","d","a","y","?">>
SummaryLabel == <<"P","r","e","v","i","o","u","s"," ","c","o","n","v","e","r","s","a","t","i","o","n"," ","s","u","m","m","a","r","i","z","e","d",":"," ">>
Ellipsis == <<".",".",".">>
ErrorPrefix == <<"E","r","r","o","r",":"," ">>
ErrorSep == <<" ","-"," ">>
SorryPrefix == <<"S","o","r","r","y",","," ","s","o","m","e","t","h","i","n","g"," ","w","e","n","t"," ","w","r","o","n","g",":"," ">>
RoleSystem == <<"s","y","s","t","e","m">>
RoleUser == <<"u","s","e","r">>
RoleAssistant == <<"a","s","s","i","s","t","a","n","t">>
KeyRole == <<"r","o","l","e">>
KeyContent == <<"c","o","n","t","e","n","t">>
KeyMessage == <<"m","e","s","s","a","g","e">>
CmdExit == <<"e","x","i","t">>
CmdSave == <<"s","a","v","e">>
CmdLoad == <<"l","o","a","d">>
CmdSummary == <<"s","u","m","m","a","r","y">>
ModelName == <<"l","l","a","m","a","3",".","2">>

\* str(e) of the errors the turn can meet
ErrNotIterable == <<"a","r","g","u","m","e","n","t"," ","o","f"," ","t","y","p","e"," ","'","i","n","t","'"," ","i","s"," ","n","o","t"," ","i","t","e","r","a","b","l","e">>
ErrStrIndex == <<"s","t","r","i","n","g"," ","i","n","d","i","c","e","s"," ","m","u","s","t"," ","b","e"," ","i","n","t","e","g","e","r","s">>
ErrListIndex == <<"l","i","s","t"," ","i","n","d","i","c","e","s"," ","m","u","s","t"," ","b","e"," ","i","n","t","e","g","e","r","s">>
ErrConcat == <<"c","a","n"," ","o","n","l","y"," ","c","o","n","c","a","t","e","n","a","t","e"," ","s","t","r">>
ErrConnection == <<"C","o","n","n","e","c","t","i","o","n"," ","r","e","f","u","s","e","d">>
ErrBroken == <<"C","o","n","n","e","c","t","i","o","n"," ","b","r","o","k","e","n">>
\* str(e) of an error a logger call raises
ErrLogging == <<"l","o","g","g","i","n","g"," ","f","a","i","l","e","d">>

(***************************************************************************)
(* Text helpers: Python's str and list operations.                         *)
(***************************************************************************)
Min(a, b) == IF a < b THEN a ELSE b

\* s[:n]
Prefix(s, n) == SubSeq(s, 1, Min(n, Len(s)))

\* s[-n:]
Suffix(s, n) == SubSeq(s, Len(s) - Min(n, Len(s)) + 1, Len(s))

\* sub in s, for two strings
Contains(s, sub) ==
    \E i \in 0..(Len(s) - Len(sub)) : SubSeq(s, i + 1, i + Len(sub)) = sub

RECURSIVE Flatten(_)
\* "".join(parts), halving the list
Flatten(parts) ==
    IF parts = <<>> THEN <<>>
    ELSE IF Len(parts) = 1 THEN parts[1]
    ELSE LET h == Len(parts) \div 2 IN
         Flatten(SubSeq(parts, 1, h)) \o Flatten(SubSeq(parts, h + 1, Len(parts)))

RECURSIVE Join(_, _)
\* sep.join(parts)
Join(sep, parts) ==
    IF parts = <<>> THEN <<>>
    ELSE IF Len(parts) = 1 THEN Head(parts)
    ELSE Head(parts) \o sep \o Join(sep, Tail(parts))

Digit(d) == <<"0","1","2","3","4","5","6","7","8","9">>[d + 1]

RECURSIVE IntToStr(_)
\* str(n) for n >= 0, as the f-string formats response.status_code
IntToStr(n) ==
    IF n < 10 THEN <<Digit(n)>> ELSE IntToStr(n \div 10) \o <<Digit(n % 10)>>

UpperCase == <<"A","B","C","D","E","F","G","H","I","J","K","L","M","N","O","P","Q","R","S","T","U","V","W","X","Y","Z">>
LowerCase == <<"a","b","c","d","e","f","g","h","i","j","k","l","m","n","o","p","q","r","s","t","u","v","w","x","y","z">>

LowerChar(c) ==
    IF \E i \in 1..26 : UpperCase[i] = c
    THEN LowerCase[CHOOSE i \in 1..26 : UpperCase[i] = c]
    ELSE c

\* s.lower()
Lower(s) == [i \in 1..Len(s) |-> LowerChar(s[i])]

(***************************************************************************)
(* JSON as json.dump writes it and json.load / json.loads read it.         *)
(* A parsed value is a tagged record:                                      *)
(*   [t |-> "str", s |-> text]     [t |-> "num", s |-> digits]             *)
(*   [t |-> "lit", s |-> text]     (true, false, null)                     *)
(*   [t |-> "arr", a |-> values]   [t |-> "obj", m |-> <<[k, v], ...>>]     *)
(***************************************************************************)
Quote == "\""
Backslash == "\\"
Newline == "\n"

\* a slip: the backslash is written as it is
EscapeChar_only_quote(c) ==
    IF c = Quote THEN <<Backslash, Quote>>
    ELSE IF c = Newline THEN <<Backslash, "n">>
    ELSE <<c>>

\* one character of a string as json.dump writes it (ensure_ascii escapes)
EscapeChar(c) ==
    IF c = Quote THEN <<Backslash, Quote>>
    ELSE IF c = Backslash THEN <<Backslash, Backslash>>
    ELSE IF c = Newline THEN <<Backslash, "n">>
    ELSE <<c>>

\* a str as a JSON string literal
EncodeString(s) ==
    <<Quote>> \o Flatten([i \in 1..Len(s) |-> EscapeChar(s[i])]) \o <<Quote>>

\* a {"role": ..., "content": ...} dict, keys in insertion order
EncodeMessage(m) ==
    <<"{">> \o EncodeString(KeyRole) \o <<":", " ">> \o EncodeString(m.role)
            \o <<",", " ">>
            \o EncodeString(KeyContent) \o <<":", " ">> \o EncodeString(m.content)
            \o <<"}">>

\* json.dump(self.messages, f): the text written to the file
JsonDump(msgs) ==
    <<"[">> \o Join(<<",", " ">>, [i \in 1..Len(msgs) |-> EncodeMessage(msgs[i])])
            \o <<"]">>

ParseFail == [ok |-> FALSE, pos |-> 0]
ParseOk(v, p) == [ok |-> TRUE, val |-> v, pos |-> p]

Digits == {"0","1","2","3","4","5","6","7","8","9"}
Literals == {<<"t","r","u","e">>, <<"f","a","l","s","e">>, <<"n","u","l","l">>}

RECURSIVE SkipWs(_, _)
SkipWs(s, i) ==
    IF i <= Len(s) /\ s[i] = " " THEN SkipWs(s, i + 1) ELSE i

\* the number of backslashes that stand in s right before place k, from lo on
BackslashRun(s, lo, k) ==
    CHOOSE n \in 0..(k - lo) :
        /\ \A j \in (k - n)..(k - 1) : s[j] = Backslash
        /\ n = k - lo \/ s[k - n - 1] # Backslash

\* place k of s holds a character that a backslash before it escapes
Escaped(s, lo, k) == BackslashRun(s, lo, k) % 2 = 1

\* the rest of a string literal, i being the place after its opening quote:
\* it ends at the first quote that is not escaped; inside it a backslash that
\* is not escaped itself escapes the next character
ScanString(s, i) ==
    IF ~\E k \in i..Len(s) : s[k] = Quote /\ ~Escaped(s, i, k) THEN ParseFail
    ELSE LET end == CHOOSE k \in i..Len(s) :
                        /\ s[k] = Quote /\ ~Escaped(s, i, k)
                        /\ \A j \in i..(k - 1) : ~(s[j] = Quote /\ ~Escaped(s, i, j))
             starts == {k \in i..(end - 1) : s[k] = Backslash /\ ~Escaped(s, i, k)}
             decoded == [k \in i..(end - 1) |->
                            IF k \in starts THEN <<>>
                            ELSE IF Escaped(s, i, k)
                                 THEN (IF s[k] = "n" THEN <<Newline>> ELSE <<s[k]>>)
                            ELSE <<s[k]>>]
         IN IF \/ \E k \in starts : s[k + 1] \notin {Quote, Backslash, "/", "n"}
               \/ \E k \in i..(end - 1) : s[k] = Newline
            THEN ParseFail
            ELSE ParseOk([t |-> "str",
                          s |-> Flatten([k \in 1..(end - i) |-> decoded[i + k - 1]])],
                         end + 1)

RECURSIVE ScanNumber(_, _, _)
ScanNumber(s, i, acc) ==
    IF i <= Len(s) /\ s[i] \in Digits
    THEN ScanNumber(s, i + 1, Append(acc, s[i]))
    ELSE ParseOk([t |-> "num", s |-> acc], i)

ScanLiteral(s, i) ==
    IF \E l \in Literals : i + Len(l) - 1 <= Len(s) /\ SubSeq(s, i, i + Len(l) - 1) = l
    THEN LET l == CHOOSE l \in Literals :
                      i + Len(l) - 1 <= Len(s) /\ SubSeq(s, i, i + Len(l) - 1) = l
         IN ParseOk([t |-> "lit", s |-> l], i + Len(l))
    ELSE ParseFail

RECURSIVE ParseValue(_, _)
RECURSIVE ParseMembers(_, _, _)
RECURSIVE ParseElements(_, _, _)

\* the members of an object after "{" or ","
ParseMembers(s, i, acc) ==
    LET j == SkipWs(s, i) IN
    IF j > Len(s) THEN ParseFail
    ELSE IF s[j] = "}" /\ acc = <<>> THEN ParseOk([t |-> "obj", m |-> acc], j + 1)
    ELSE IF s[j] # Quote THEN ParseFail
    ELSE LET key == ScanString(s, j + 1) IN
         IF ~key.ok THEN ParseFail
         ELSE LET c == SkipWs(s, key.pos) IN
              IF c > Len(s) \/ s[c] # ":" THEN ParseFail
              ELSE LET v == ParseValue(s, c + 1) IN
                   IF ~v.ok THEN ParseFail
                   ELSE LET e == SkipWs(s, v.pos)
                            got == Append(acc, [k |-> key.val.s, v |-> v.val])
                        IN IF e > Len(s) THEN ParseFail
                           ELSE IF s[e] = "," THEN ParseMembers(s, e + 1, got)
                           ELSE IF s[e] = "}"
                                THEN ParseOk([t |-> "obj", m |-> got], e + 1)
                           ELSE ParseFail

\* the elements of an array after "[" or ","
ParseElements(s, i, acc) ==
    LET j == SkipWs(s, i) IN
    IF j > Len(s) THEN ParseFail
    ELSE IF s[j] = "]" /\ acc = <<>> THEN ParseOk([t |-> "arr", a |-> acc], j + 1)
    ELSE LET v == ParseValue(s, j) IN
         IF ~v.ok THEN ParseFail
         ELSE LET e == SkipWs(s, v.pos)
                  got == Append(acc, v.val)
              IN IF e > Len(s) THEN ParseFail
                 ELSE IF s[e] = "," THEN ParseElements(s, e + 1, got)
                 ELSE IF s[e] = "]" THEN ParseOk([t |-> "arr", a |-> got], e + 1)
                 ELSE ParseFail

ParseValue(s, i) ==
    LET j == SkipWs(s, i) IN
    IF j > Len(s) THEN ParseFail
    ELSE IF s[j] = Quote THEN ScanString(s, j + 1)
    ELSE IF s[j] = "{" THEN ParseMembers(s, j + 1, <<>>)
    ELSE IF s[j] = "[" THEN ParseElements(s, j + 1, <<>>)
    ELSE IF s[j] \in Digits THEN ScanNumber(s, j, <<>>)
    ELSE ScanLiteral(s, j)

\* json.loads(text): one value and nothing after it, else JSONDecodeError
JsonLoads(s) ==
    LET r == ParseValue(s, 1) IN
    IF r.ok /\ SkipWs(s, r.pos) > Len(s) THEN r ELSE ParseFail

\* key in d, for a parsed object d
HasKey(obj, key) == \E i \in 1..Len(obj.m) : obj.m[i].k = key

\* d[key]: of a repeated key the last one stands
Lookup(obj, key) ==
    obj.m[CHOOSE i \in 1..Len(obj.m) :
              /\ obj.m[i].k = key
              /\ \A j \in (i + 1)..Len(obj.m) : obj.m[j].k # key].v

\* a parsed value that is a list of {role, content} dicts of strings
IsMessageList(v) ==
    /\ v.t = "arr"
    /\ \A i \in 1..Len(v.a) :
          /\ v.a[i].t = "obj"
          /\ {v.a[i].m[j].k : j \in 1..Len(v.a[i].m)} = {KeyRole, KeyContent}
          /\ Lookup(v.a[i], KeyRole).t = "str"
          /\ Lookup(v.a[i], KeyContent).t = "str"

\* the transcript such a value is
AsMessages(v) ==
    [i \in 1..Len(v.a) |->
        [role |-> Lookup(v.a[i], KeyRole).s, content |-> Lookup(v.a[i], KeyContent).s]]


(***************************************************************************)
(* The response loop's handling of one line (lines 90-96).                 *)
(***************************************************************************)
\* key in v: "yes", "no", or "error" (TypeError: v is not iterable)
PyIn(key, v) ==
    IF v.t = "obj" THEN (IF HasKey(v, key) THEN "yes" ELSE "no")
    ELSE IF v.t = "str" THEN (IF Contains(v.s, key) THEN "yes" ELSE "no")
    ELSE IF v.t = "arr"
         THEN (IF \E i \in 1..Len(v.a) : v.a[i].t = "str" /\ v.a[i].s = key
               THEN "yes" ELSE "no")
    ELSE "error"

\* what one line of the stream does: nothing, a piece added to full_response,
\* or an error raised inside the try block (str(e) in msg)
Skip == [kind |-> "skip"]
Add(piece) == [kind |-> "add", piece |-> piece]
Raises(msg) == [kind |-> "raise", msg |-> msg]

\* line 94: full_response += content
OnContent(content) ==
    IF content.t = "str" THEN Add(content.s) ELSE Raises(ErrConcat)

\* line 93, second test, and the subscript of line 94
OnMessage(message, hasContent) ==
    IF hasContent = "error" THEN Raises(ErrNotIterable)
    ELSE IF hasContent = "no" THEN Skip
    ELSE IF message.t = "str" THEN Raises(ErrStrIndex)
    ELSE IF message.t = "arr" THEN Raises(ErrListIndex)
    ELSE OnContent(Lookup(message, KeyContent))

\* json_data["message"], on which the second test of line 93 works
WithMessage(message) == OnMessage(message, PyIn(KeyContent, message))

\* line 93, first test, and the subscript after it
OnJsonData(json_data, hasMessage) ==
    IF hasMessage = "error" THEN Raises(ErrNotIterable)
    ELSE IF hasMessage = "no" THEN Skip
    ELSE IF json_data.t = "str" THEN Raises(ErrStrIndex)
    ELSE IF json_data.t = "arr" THEN Raises(ErrListIndex)
    ELSE WithMessage(Lookup(json_data, KeyMessage))

\* lines 92-96: what json.loads gave, JSONDecodeError being passed over
OnLoads(r) ==
    IF ~r.ok THEN Skip ELSE OnJsonData(r.val, PyIn(KeyMessage, r.val))

LineEffect(line) ==
    IF line = <<>> THEN Skip ELSE OnLoads(JsonLoads(line))

(***************************************************************************)
(* The transcript operations of ChatBot.                                   *)
(***************************************************************************)
Msg(role, content) == [role |-> role, content |-> content]

\* a slip: the message is put in front of the list
append_in_front(msgs, m) == <<m>> \o msgs

\* a slip: the new message takes the place of the last one
append_over_last(msgs, m) == [msgs EXCEPT ![Len(msgs)] = m]

\* self.messages.append(m)
append(msgs, m) == Append(msgs, m)

create_initial_messages == <<Msg(RoleSystem, SeedContent)>>

\* a slip: no summary message is put in front of the kept messages
summarize_without_summary(msgs) == Suffix(msgs, KeepLast)

\* a slip: messages[:5] kept, not messages[-5:]
summarize_first_messages(msgs) ==
    LET kept == Prefix(msgs, KeepLast)
        summary == SummaryLabel \o
                   Join(<<" ">>, [i \in 1..Len(kept) |->
                                     Prefix(kept[i].content, TruncateAt) \o Ellipsis])
    IN <<Msg(RoleSystem, summary)>> \o kept

\* a slip: the marker is put only after a content that was cut
summarize_marker_when_cut(msgs) ==
    LET kept == Suffix(msgs, KeepLast)
        summary == SummaryLabel \o
                   Join(<<" ">>, [i \in 1..Len(kept) |->
                                     IF Len(kept[i].content) > TruncateAt
                                     THEN Prefix(kept[i].content, TruncateAt) \o Ellipsis
                                     ELSE kept[i].content])
    IN <<Msg(RoleSystem, summary)>> \o kept

summarize_messages(msgs) ==
    LET kept == Suffix(msgs, KeepLast)
        summary == SummaryLabel \o
                   Join(<<" ">>, [i \in 1..Len(kept) |->
                                     Prefix(kept[i].content, TruncateAt) \o Ellipsis])
    IN <<Msg(RoleSystem, summary)>> \o kept

\* a slip: >= for >
NeedsAutoSummary_at_threshold(msgs) == Len(msgs) >= AutoThreshold

\* main's test after a turn
NeedsAutoSummary_late(msgs) == Len(msgs) > AutoThreshold + 2
NeedsAutoSummary_early(msgs) == Len(msgs) > KeepLast
NeedsAutoSummary(msgs) == Len(msgs) > AutoThreshold

(***************************************************************************)
(* What the user types and what the backend sends.                         *)
(***************************************************************************)
Commands == {CmdExit, CmdSave, CmdLoad, CmdSummary}

\* free text typed at the prompt
UserInputs == {<<"h","i">>, <<"a",Quote,Backslash>>}
\* lines typed at the prompt of the command loop, commands in any letter
\* case included
PromptInputs ==
    {<<"a",Quote,Backslash>>} \cup Commands
        \cup {<<"S","a","v","e">>, <<"L","O","A","D">>}

\* a line of a 200 response as the backend sends it: text is the line, carries
\* says whether it is a JSON object with a message.content string, piece
ContentLine(piece) ==
    [text |-> <<"{">> \o EncodeString(KeyMessage) \o <<":", "{">>
              \o EncodeString(KeyContent) \o <<":">> \o EncodeString(piece)
              \o <<"}", "}">>,
     carries |-> TRUE, piece |-> piece]
OtherLine(text) == [text |-> text, carries |-> FALSE, piece |-> <<>>]

LineHel == ContentLine(<<"H","e","l">>)
LineLo == ContentLine(<<"l","o">>)
LineBang == ContentLine(<<"!">>)
LineEscaped == ContentLine(<<Quote, Newline>>)
LineNotJson == OtherLine(<<"n","o","t"," ","j","s","o","n">>)
LineEmpty == OtherLine(<<>>)
LineDone == OtherLine(<<"{",Quote,"d","o","n","e",Quote,":","t","r","u","e","}">>)
LineNumber == OtherLine(<<"5">>)

StreamLines ==
    {LineHel, LineLo, LineBang, LineNotJson, LineEmpty, LineDone, LineNumber}

\* what the loop body of chat does with each line the backend of the model
\* may send: LineEffect of its text, worked out once per line
LineEffects == [l \in StreamLines \cup {LineEscaped} |-> LineEffect(l.text)]

\* every stream of at most n lines
Streams(n) == UNION {[1..k -> StreamLines] : k \in 0..n}

Response(status, body, lines) == [status |-> status, body |-> body, lines |-> lines]

\* answers with a status that is not 200: status and body text
ErrorResponses ==
    {Response(404, <<"n","o"," ","m","o","d","e","l">>, <<>>),
     Response(500, <<>>, <<>>)}
\* every answer to the single call
Responses ==
    ErrorResponses \cup {Response(StatusOK, <<>>, ls) : ls \in Streams(MaxLines)}
\* the answers in the command loop
LoopResponses ==
    {Response(StatusOK, <<>>, <<LineHel, LineNotJson, LineEscaped>>),
     Response(500, <<"b","u","s","y">>, <<>>)}
\* the answers in the turn sequences
TurnResponses ==
    LoopResponses \cup {Response(StatusOK, <<>>, <<LineNumber>>)}

(***************************************************************************)
(* State.                                                                  *)
(***************************************************************************)
VARIABLES
    messages,       \* self.messages
    session_id,     \* self.session_id: the n-th process has session n
    log,            \* the records handed to self.logger, oldest first
    sink,           \* those of them the handlers wrote to chatbot_logs.json
    drops_left,     \* records the run may still fail to write
    file_exists,    \* conversation.json exists
    file,           \* its text
    access,         \* what the file system lets this program do with it:
                    \* "rw" read and write, "r" read only, "none" neither
    pc,             \* where the program is: idle (main at input()), request,
                    \* streaming, returned (chat back in main), exited, crashed
    user_input,     \* chat's argument
    response,       \* the response of requests.post: status and body
    stream,         \* the lines response.iter_lines has still to give
    full_response,  \* chat's accumulator
    clock,          \* datetime.now() - start_time: the time since line 79, one
                    \* tick for the answer to arrive and one for each line read
    response_time,  \* chat's response_time
    result,         \* what chat returned to main
    sent,           \* the lines of the response consumed so far
    pre,            \* the transcript when chat was called
    saved,          \* the transcript at the last save_conversation
    before,         \* the transcript the last summarize_messages was given
    okTurns,        \* the (input, reply) pairs of the session while it has
    clean,          \* seen only successful turns; clean says whether it has
    last,           \* what main did last: start, chat (a turn begun), turn (a
                    \* turn over, no summary), auto, summary, save, load,
                    \* load_missing, load_error, exit
    turns_left,     \* chat turns the run may still start
    events_left     \* failed turns, 'summary', 'save' and 'load' commands and
                    \* restarts the run may still make

vars == <<messages, session_id, log, sink, drops_left, file_exists, file, access, pc, user_input, response,
          stream, full_response, clock, response_time, result, sent, pre, saved, before, okTurns, clean,
          last, turns_left, events_left>>

chatLocals == <<user_input, response, stream, full_response, clock, response_time,
                sent, pre>>
disk == <<file_exists, file, access, saved>>
logging == <<log, sink, drops_left>>

NoResponse == [status |-> 0, body |-> <<>>]

\* main at input() with transcript msgs and nothing else done; t, e and d
\* bound the run
InitAll(msgs, t, e, d) ==
    /\ messages = msgs
    /\ session_id = 1
    /\ log = <<>>
    /\ sink = <<>>
    /\ drops_left = d
    /\ file_exists = FALSE
    /\ file = <<>>
    /\ access = "rw"
    /\ pc = "idle"
    /\ user_input = <<>>
    /\ response = NoResponse
    /\ stream = <<>>
    /\ full_response = <<>>
    /\ clock = 0
    /\ response_time = 0
    /\ result = <<>>
    /\ sent = <<>>
    /\ pre = <<>>
    /\ saved = <<>>
    /\ before = <<>>
    /\ okTurns = <<>>
    /\ clean = TRUE
    /\ last = "start"
    /\ turns_left = t
    /\ events_left = e

InitFrom(msgs, t, e) == InitAll(msgs, t, e, 0)

\* lines 36-39 and 190: the program started, main at its first input()
InitWith(t, e) == InitFrom(create_initial_messages, t, e)

Init == InitWith(MaxTurns, MaxEvents)

\* a log record: type, its text field, and the metadata
Rec(type, text) ==
    [type |-> type, text |-> text, session_id |-> session_id, model |-> ModelName]

\* a slip: what is typed is taken while a turn is in flight
AtPrompt_in_flight == pc \in {"idle", "request", "streaming"}

\* line 202: main is in input(), no turn in flight
AtPrompt == pc = "idle"

\* a slip: a handler's failure is raised to the caller of the logger
EmitOutcomes_raising == {"written", "swallowed", "raised"}

\* what a call of self.logger.info or self.logger.error can do with a record:
\* the handler writes it, or the handler fails and logging's handleError
\* swallows the failure; the call returns in both cases
EmitOutcomes == {"written", "swallowed"}

\* the run may still take outcome o
MayEmit(o) == o = "written" \/ drops_left > 0

\* lines 67, 111, 130, 145: a logger call that returned, with outcome o
Emit(rec, o) ==
    /\ log' = Append(log, rec)
    /\ sink' = IF o = "written" THEN Append(sink, rec) ELSE sink
    /\ drops_left' = IF o = "written" THEN drops_left ELSE drops_left - 1

(***************************************************************************)
(* chat(user_input), step by step.                                         *)
(***************************************************************************)
\* a slip: the failed turn takes the user's message back
OnException_rollback(msg) ==
    /\ Emit(Rec("exception", msg), "written")
    /\ result' = SorryPrefix \o msg
    /\ pc' = "returned"
    /\ messages' = pre

\* a slip: the except clause does not catch the error, which leaves chat
OnException_uncaught(msg) ==
    /\ pc' = "crashed"
    /\ UNCHANGED <<logging, result, messages>>

\* lines 133-146: the except clause, str(e) being msg; an error raised in
\* it (by line 145) leaves chat, and main, which has no handler
OnException(msg) ==
    \E o \in EmitOutcomes :
        /\ MayEmit(o)
        /\ IF o = "raised"
           THEN /\ pc' = "crashed"
                /\ UNCHANGED <<logging, result>>
           ELSE /\ Emit(Rec("exception", msg), o)
                /\ result' = SorryPrefix \o msg
                /\ pc' = "returned"
        /\ UNCHANGED messages

\* lines 59-79: log the input, append the user message, build the payload
\* (which holds self.messages itself), take start_time and start the request
ChatBegin(inputs) ==
    /\ AtPrompt
    /\ \E inp \in inputs, o \in EmitOutcomes :
        /\ Lower(inp) \notin Commands
        /\ turns_left > 0
        /\ MayEmit(o)
        /\ IF o = "raised"
           THEN \* line 67 raises: to the except clause, line 70 not reached
                OnException(ErrLogging)
           ELSE /\ Emit(Rec("user_input", inp), o)
                /\ messages' = append(messages, Msg(RoleUser, inp))
                /\ pc' = "request"
                /\ UNCHANGED result
        /\ user_input' = inp
        /\ pre' = messages
        /\ response' = NoResponse
        /\ stream' = <<>>
        /\ full_response' = <<>>
        /\ clock' = 0
        /\ response_time' = 0
        /\ sent' = <<>>
        /\ turns_left' = turns_left - 1
        /\ last' = "chat"
        /\ UNCHANGED <<session_id, disk, before, okTurns, clean, events_left>>

\* a failed turn, in the exploration's accounts
CountFailure ==
    /\ events_left' = events_left - 1
    /\ clean' = FALSE
    /\ okTurns' = <<>>

\* line 80: requests.post raises (no connection)
PostRaises(errs) ==
    /\ pc = "request"
    /\ \E e \in errs :
        /\ events_left > 0
        /\ OnException(e)
        /\ CountFailure
        /\ UNCHANGED <<session_id, disk, chatLocals, before, last, turns_left>>

\* a slip: the branch returns its text without logging
OnHttpError_silent(r) ==
    /\ result' = ErrorPrefix \o IntToStr(r.status) \o ErrorSep \o r.body
    /\ pc' = "returned"
    /\ UNCHANGED <<messages, logging, full_response>>

\* lines 117-131: the branch of a status that is not 200; an error raised
\* by line 130 goes to the except clause
OnHttpError(r) ==
    \E o \in EmitOutcomes :
        /\ MayEmit(o)
        /\ IF o = "raised"
           THEN OnException(ErrLogging)
           ELSE /\ Emit(Rec("http_error", r.body), o)
                /\ result' = ErrorPrefix \o IntToStr(r.status) \o ErrorSep \o r.body
                /\ pc' = "returned"
                /\ UNCHANGED messages
        /\ UNCHANGED full_response

\* a slip: every status from 200 on is taken for a success
IsSuccess_from_200(status) == status >= StatusOK

\* line 85
IsSuccess(status) == status = StatusOK

\* lines 81-82: end_time = datetime.now(), response_time = end_time - start_time
Elapsed(now) == now

\* lines 80-86: requests.post returns (stream=True: the status and the headers
\* are there, the body is not read yet), end_time is taken and the status
\* selects the branch
PostReturns(responses) ==
    /\ pc = "request"
    /\ \E r \in responses :
        /\ IsSuccess(r.status) \/ events_left > 0
        /\ response' = [status |-> r.status, body |-> r.body]
        /\ stream' = r.lines
        /\ clock' = clock + 1
        /\ response_time' = Elapsed(clock + 1)
        /\ IF IsSuccess(r.status)
           THEN /\ full_response' = <<>>
                /\ pc' = "streaming"
                /\ UNCHANGED <<messages, logging, result, events_left, clean, okTurns>>
           ELSE /\ OnHttpError(r)
                /\ CountFailure
        /\ UNCHANGED <<session_id, disk, user_input, sent, pre, before, last, turns_left>>

\* a slip: = for +=
Accumulate_assign(acc, piece) == piece

\* line 94: full_response += piece
Accumulate(acc, piece) == acc \o piece

\* lines 90-96: the body of the loop for the line l, e being what the line
\* does
ConsumeLine(l, e) ==
    /\ e.kind = "raise" => events_left > 0
    /\ stream' = Tail(stream)
    /\ clock' = clock + 1
    /\ sent' = Append(sent, l)
    /\ IF e.kind = "raise"
       THEN /\ OnException(e.msg)
            /\ CountFailure
            /\ UNCHANGED full_response
       ELSE /\ full_response' = IF e.kind = "add"
                                THEN Accumulate(full_response, e.piece)
                                ELSE full_response
            /\ UNCHANGED <<messages, logging, result, pc, okTurns, clean, events_left>>
    /\ UNCHANGED <<session_id, disk, user_input, response, response_time, pre,
                   before, last, turns_left>>

\* lines 89-96: one pass of the loop over response.iter_lines
StreamLine ==
    /\ pc = "streaming"
    /\ stream # <<>>
    /\ \E e \in {LineEffects[Head(stream)]} : ConsumeLine(Head(stream), e)

\* line 89: iter_lines itself raises (the connection breaks in the stream)
StreamRaises(errs) ==
    /\ pc = "streaming"
    /\ \E e \in errs :
        /\ events_left > 0
        /\ OnException(e)
        /\ CountFailure
        /\ UNCHANGED <<session_id, disk, chatLocals, before, last, turns_left>>

\* lines 98-115: the stream has ended
StreamEnd ==
    /\ pc = "streaming"
    /\ stream = <<>>
    /\ \E o \in EmitOutcomes :
        /\ MayEmit(o)
        /\ IF o = "raised"
           THEN \* line 111 raises: to the except clause, line 114 not reached
                /\ OnException(ErrLogging)
                /\ UNCHANGED okTurns
           ELSE /\ Emit(Rec("model_response", full_response), o)
                /\ messages' = append(messages, Msg(RoleAssistant, full_response))
                /\ result' = full_response
                /\ pc' = "returned"
                /\ okTurns' = IF clean
                              THEN Append(okTurns, [input |-> user_input,
                                                    reply |-> full_response])
                              ELSE <<>>
    /\ UNCHANGED <<session_id, disk, chatLocals, before, clean, last, turns_left, events_left>>

(***************************************************************************)
(* main(): the command loop.                                               *)
(***************************************************************************)
\* chat's locals are gone once main goes on
ForgetTurn ==
    /\ user_input' = <<>>
    /\ response' = NoResponse
    /\ stream' = <<>>
    /\ full_response' = <<>>
    /\ clock' = 0
    /\ response_time' = 0
    /\ sent' = <<>>
    /\ pre' = <<>>

\* lines 225-227, the test holding
AutoSummarize ==
    /\ pc = "returned"
    /\ NeedsAutoSummary(messages)
    /\ messages' = summarize_messages(messages)
    /\ before' = messages
    /\ pc' = "idle"
    /\ last' = "auto"
    /\ clean' = FALSE
    /\ okTurns' = <<>>
    /\ ForgetTurn
    /\ UNCHANGED <<session_id, disk, logging, result, turns_left, events_left>>

\* lines 225-227, the test failing
ContinueLoop ==
    /\ pc = "returned"
    /\ ~NeedsAutoSummary(messages)
    /\ pc' = "idle"
    /\ last' = "turn"
    /\ ForgetTurn
    /\ UNCHANGED <<messages, session_id, disk, logging, result, before, okTurns, clean,
                   turns_left, events_left>>

\* lines 215-218
SummaryCmd ==
    /\ AtPrompt
    /\ \E inp \in PromptInputs : Lower(inp) = CmdSummary
    /\ events_left > 0
    /\ messages' = summarize_messages(messages)
    /\ before' = messages
    /\ last' = "summary"
    /\ clean' = FALSE
    /\ okTurns' = <<>>
    /\ events_left' = events_left - 1
    /\ UNCHANGED <<session_id, disk, logging, pc, chatLocals, result, turns_left>>

\* lines 160-168: the text save_conversation leaves in the file
save_conversation(msgs) == JsonDump(msgs)

\* line 167: open(filename, "w") succeeds
CanWrite(a) == a = "rw"

\* line 178: open(filename, "r") succeeds on a file that exists
CanRead(a) == a \in {"rw", "r"}

\* lines 207-210, with save_conversation (lines 167-168) in them
SaveCmd ==
    /\ AtPrompt
    /\ \E inp \in PromptInputs : Lower(inp) = CmdSave
    /\ events_left > 0
    /\ IF CanWrite(access)
       THEN /\ file_exists' = TRUE
            /\ file' = save_conversation(messages)
            /\ saved' = messages
            /\ last' = "save"
            /\ pc' = pc
       ELSE \* open raises PermissionError: neither save_conversation nor main
            \* catches it, and it leaves main
            /\ UNCHANGED <<file_exists, file, saved>>
            /\ last' = "save_error"
            /\ pc' = "crashed"
    /\ events_left' = events_left - 1
    /\ UNCHANGED <<messages, session_id, logging, access, chatLocals, result, before,
                   okTurns, clean, turns_left>>

\* a slip: the transcript is left as it was
on_file_not_found_keep(msgs) == msgs

\* lines 180-182: the except FileNotFoundError clause
on_file_not_found(msgs) == create_initial_messages

\* lines 170-182: what self.messages and the program become
load_conversation ==
    IF ~file_exists
    THEN /\ messages' = on_file_not_found(messages)
         /\ pc' = pc
         /\ last' = "load_missing"
    ELSE IF ~CanRead(access)
    THEN \* open raises PermissionError, which is no FileNotFoundError: it is
         \* not caught and leaves main
         /\ messages' = messages
         /\ pc' = "crashed"
         /\ last' = "load_error"
    ELSE LET r == JsonLoads(file) IN
         IF r.ok /\ IsMessageList(r.val)
         THEN /\ messages' = AsMessages(r.val)
              /\ pc' = pc
              /\ last' = "load"
         ELSE \* json.JSONDecodeError is not caught and leaves main
              /\ messages' = messages
              /\ pc' = "crashed"
              /\ last' = "load_error"

\* lines 211-214
LoadCmd ==
    /\ AtPrompt
    /\ \E inp \in PromptInputs : Lower(inp) = CmdLoad
    /\ events_left > 0
    /\ load_conversation
    /\ clean' = FALSE
    /\ okTurns' = <<>>
    /\ events_left' = events_left - 1
    /\ UNCHANGED <<session_id, disk, logging, chatLocals, result, before, turns_left>>

\* lines 204-206
ExitCmd ==
    /\ AtPrompt
    /\ \E inp \in PromptInputs : Lower(inp) = CmdExit
    /\ events_left > 0
    /\ pc' = "exited"
    /\ last' = "exit"
    /\ UNCHANGED <<messages, session_id, disk, logging, chatLocals, result, before,
                   okTurns, clean, turns_left, events_left>>

\* the program is started again: ChatBot() makes a new session; the
\* conversation file and the log file stay
Restart ==
    /\ pc \in {"exited", "crashed"}
    /\ events_left > 0
    /\ session_id' = session_id + 1
    /\ messages' = create_initial_messages
    /\ pc' = "idle"
    /\ last' = "start"
    /\ clean' = TRUE
    /\ okTurns' = <<>>
    /\ result' = <<>>
    /\ events_left' = events_left - 1
    /\ UNCHANGED <<disk, logging, chatLocals, before, turns_left>>

(***************************************************************************)
(* What happens to conversation.json outside the program.                  *)
(***************************************************************************)
\* the file is cut short, as a writer that was stopped half-way leaves it
FileCut ==
    /\ pc \in {"idle", "exited", "crashed"}
    /\ file_exists
    /\ file # <<>>
    /\ events_left > 0
    /\ file' = Prefix(file, Len(file) \div 2)
    /\ events_left' = events_left - 1
    /\ UNCHANGED <<messages, session_id, logging, file_exists, access, saved, pc,
                   chatLocals, result, before, okTurns, clean, last, turns_left>>

\* the permissions of the file (of its directory, while there is no file)
\* are changed
SetAccess(modes) ==
    /\ pc \in {"idle", "exited", "crashed"}
    /\ events_left > 0
    /\ \E m \in modes :
        /\ m # access
        /\ access' = m
    /\ events_left' = events_left - 1
    /\ UNCHANGED <<messages, session_id, logging, file_exists, file, saved, pc,
                   chatLocals, result, before, okTurns, clean, last, turns_left>>

(***************************************************************************)
(* Specifications.                                                         *)
(***************************************************************************)
\* the command loop, with every command
Next ==
    \/ ChatBegin(PromptInputs)
    \/ PostRaises({ErrConnection})
    \/ PostReturns(LoopResponses)
    \/ StreamLine
    \/ StreamEnd
    \/ AutoSummarize
    \/ ContinueLoop
    \/ SummaryCmd
    \/ SaveCmd
    \/ LoadCmd
    \/ ExitCmd
    \/ Restart

Spec == Init /\ [][Next]_vars

\* the command loop when the backend answers or fails in the end, every
\* line of a stream arrives and the stream ends, and main goes on after chat
\* returned; nothing is assumed of what the user types
Progress ==
    /\ WF_vars(PostRaises({ErrConnection}) \/ PostReturns(LoopResponses))
    /\ WF_vars(StreamLine)
    /\ WF_vars(StreamEnd)
    /\ WF_vars(AutoSummarize \/ ContinueLoop)

SpecLive == Init /\ [][Next]_vars /\ Progress

\* sequences of turns in the command loop, with two inputs
NextTurns ==
    \/ ChatBegin(UserInputs)
    \/ PostRaises({ErrConnection})
    \/ PostReturns(TurnResponses)
    \/ StreamLine
    \/ StreamEnd
    \/ AutoSummarize
    \/ ContinueLoop

SpecTurns == InitWith(MaxTalkTurns, MaxEvents) /\ [][NextTurns]_vars

\* one call of chat on a fresh session, with every kind of response
NextChat ==
    \/ ChatBegin(UserInputs)
    \/ PostRaises({ErrConnection})
    \/ PostReturns(Responses)
    \/ StreamLine
    \/ StreamRaises({ErrBroken})
    \/ StreamEnd

SpecChat == InitWith(1, 1) /\ [][NextChat]_vars

\* saving, loading and restarting around a few turns
NextDisk ==
    \/ ChatBegin(PromptInputs)
    \/ PostRaises({ErrConnection})
    \/ PostReturns(LoopResponses)
    \/ StreamLine
    \/ StreamEnd
    \/ ContinueLoop
    \/ SummaryCmd
    \/ SaveCmd
    \/ LoadCmd
    \/ ExitCmd
    \/ Restart

SpecDisk == InitWith(MaxDiskTurns, MaxDiskEvents) /\ [][NextDisk]_vars

\* saving and loading while the file is damaged or its permissions change
NextFaults ==
    \/ ChatBegin(UserInputs)
    \/ PostReturns(LoopResponses)
    \/ StreamLine
    \/ StreamEnd
    \/ ContinueLoop
    \/ SaveCmd
    \/ LoadCmd
    \/ FileCut
    \/ SetAccess({"rw", "r", "none"})
    \/ Restart

SpecFaults == InitWith(MaxFaultTurns, MaxFaultEvents) /\ [][NextFaults]_vars

\* turns of every outcome while the log handlers may fail to write
NextLog ==
    \/ ChatBegin(UserInputs)
    \/ PostRaises({ErrConnection})
    \/ PostReturns(TurnResponses)
    \/ StreamLine
    \/ StreamEnd
    \/ ContinueLoop

SpecLog ==
    InitAll(create_initial_messages, MaxLogTurns, MaxEvents, MaxDrops)
        /\ [][NextLog]_vars

\* summarize_messages on its own: every transcript of at most MaxLen messages
\* that starts with a system message, then 'summary' commands
LongText == [i \in 1..(TruncateAt + 2) |-> Digit(i % 10)]
SomeMessages == {Msg(RoleUser, <<"h","i">>), Msg(RoleAssistant, LongText)}
Transcripts ==
    UNION {{create_initial_messages \o rest : rest \in [1..k -> SomeMessages]}
              : k \in 0..(MaxLen - 1)}

InitSummarize == \E t \in Transcripts : InitFrom(t, 0, MaxEvents)

SpecSummarize == InitSummarize /\ [][SummaryCmd]_vars


(***************************************************************************)
(* Properties.                                                             *)
(***************************************************************************)
LastRec == log[Len(log)]
UserMsg == Msg(RoleUser, user_input)
InCall == pc \in {"request", "streaming"}

\* the pieces of the lines that carry one, in the order of the lines
RECURSIVE Pieces(_)
Pieces(ls) ==
    IF ls = <<>> THEN <<>>
    ELSE (IF Head(ls).carries THEN Head(ls).piece ELSE <<>>) \o Pieces(Tail(ls))

\* C1: in every state the command loop reaches, by turns of any outcome,
\* 'summary', auto-summarization, 'save' and 'load', the transcript is not
\* empty and its first message has role system.
C1_SystemFirst ==
    /\ Len(messages) >= 1
    /\ messages[1].role = <<"s","y","s","t","e","m">>

\* an auto-summarization after a save, then a load of the saved file
C1_Witness ==
    /\ last = "load"
    /\ \E i \in 1..Len(messages) : Contains(messages[i].content, SummaryLabel)
    /\ Len(log) >= 2 * 5

\* C2: while a session has seen only successful turns, and neither a
\* summarization nor a load, after k turns the transcript has 1 + 2k messages:
\* the seed system message, then the k (user, assistant) pairs in turn order.
C2_TurnsGrow ==
    (clean /\ pc \in {"idle", "returned"}) =>
        /\ Len(messages) = 1 + 2 * Len(okTurns)
        /\ messages[1] = Msg(RoleSystem, SeedContent)
        /\ \A i \in 1..Len(okTurns) :
              /\ messages[2 * i] = Msg(RoleUser, okTurns[i].input)
              /\ messages[2 * i + 1] = Msg(RoleAssistant, okTurns[i].reply)

\* five successful turns, the first two with different inputs
C2_Witness ==
    /\ clean
    /\ pc = "returned"
    /\ Len(okTurns) = 5
    /\ okTurns[1].input # okTurns[2].input

\* C3: when main goes on after a turn, of any outcome, the transcript is
\* summarized if and only if it has more than 10 messages, and then it has
\* exactly 6: a system message and 5 kept ones.
C3_AutoSummary ==
    [][(pc = "returned" /\ pc' = "idle") =>
          /\ Len(messages) > 10 =>
                /\ last' = "auto"
                /\ Len(messages') = 6
                /\ messages'[1].role = RoleSystem
                /\ \A i \in 1..5 : messages'[1 + i] = messages[Len(messages) - 5 + i]
          /\ Len(messages) <= 10 =>
                /\ last' # "auto"
                /\ messages' = messages]_vars

\* an auto-summarization that followed a failed turn
C3_Witness ==
    /\ last = "auto"
    /\ Len(messages) = 6
    /\ LastRec.type \in {"http_error", "exception"}

\* C4: summarize_messages on n >= 1 messages gives 1 + min(5, n) messages: a
\* system message, then the last min(5, n) of the original ones, unchanged
\* and in order.
C4_Summarize ==
    last = "summary" =>
        LET n == Len(before)
            k == IF n < 5 THEN n ELSE 5
        IN  /\ Len(messages) = 1 + k
            /\ messages[1].role = RoleSystem
            /\ \A i \in 1..k : messages[1 + i] = before[n - k + i]

\* 12 messages summarized to 6
C4_Witness ==
    /\ last = "summary"
    /\ Len(before) = 12
    /\ Len(messages) = 6

\* C5: a load of the file a save wrote, in the same session or a later one,
\* makes the transcript the one that was saved, message by message; the
\* load does not fail.
C5_RoundTrip ==
    last \in {"load", "load_error"} =>
        /\ last = "load"
        /\ Len(messages) = Len(saved)
        /\ \A i \in 1..Len(saved) :
              /\ messages[i].role = saved[i].role
              /\ messages[i].content = saved[i].content

\* a turn, a save, a new session, a load: system, user, assistant
C5_Witness ==
    /\ last = "load"
    /\ session_id = 2
    /\ Len(messages) = 3
    /\ messages[2] = Msg(RoleUser, <<"a", Quote, Backslash>>)
    /\ messages[3].role = RoleAssistant

\* C6: a load with no file does not raise and leaves the seed transcript,
\* whatever the transcript was.
C6_LoadMissing ==
    last = "load_missing" =>
        /\ pc = "idle"
        /\ messages = <<Msg(<<"s","y","s","t","e","m">>, SeedContent)>>

\* a load with no file after a turn of this session
C6_Witness ==
    /\ last = "load_missing"
    /\ log # <<>>
    /\ LastRec.session_id = session_id

StatusText(status) ==
    IF status = 404 THEN <<"4","0","4">>
    ELSE IF status = 500 THEN <<"5","0","0">>
    ELSE <<"2","0","0">>

\* C7: after an answer with a status that is not 200, chat returns a text
\* holding the status code and the body, and the transcript is the one
\* before the call plus the user message, no assistant message.
C7_HttpError ==
    (pc = "returned" /\ response.status \notin {0, 200}) =>
        /\ Contains(result, StatusText(response.status))
        /\ Contains(result, response.body)
        /\ messages = pre \o <<UserMsg>>
        /\ messages[Len(messages)].role = RoleUser

\* a 404 with a body
C7_Witness ==
    /\ pc = "returned"
    /\ response.status = 404
    /\ response.body # <<>>

\* C8: the reply text is the concatenation, in arrival order, of the
\* pieces of the lines that carry message.content: at every point of the
\* stream, and in what chat returns and appends; a line that does not parse
\* is skipped, and only a line that parses to a value that is no object
\* stops the assembly.
C8_Assembly ==
    /\ pc = "streaming" => full_response = Pieces(sent)
    /\ (pc = "returned" /\ LastRec.type = "model_response") =>
          /\ stream = <<>>
          /\ result = Pieces(sent)
          /\ messages[Len(messages)] = Msg(RoleAssistant, Pieces(sent))
    /\ (pc = "returned" /\ LastRec.type = "exception"
            /\ LastRec.text \notin {ErrConnection, ErrBroken}) =>
          /\ sent # <<>>
          /\ sent[Len(sent)] = LineNumber

\* 'Hel', 'lo', <not json>, '!' give 'Hello!'
C8_Witness ==
    /\ pc = "returned"
    /\ sent = <<LineHel, LineLo, LineNotJson, LineBang>>
    /\ result = <<"H","e","l","l","o","!">>

\* C9: a turn ends either with the assistant message appended and a
\* model_response record logged, or with no assistant message and an
\* http_error or exception record logged; while the backend is called and
\* its stream consumed, and in both endings, the user message is in the
\* transcript.
C9_Outcomes ==
    /\ InCall => messages = pre \o <<UserMsg>>
    /\ pc = "returned" =>
          /\ Len(log) >= 2
          /\ log[Len(log) - 1].type = "user_input"
          /\ \/ /\ LastRec.type = "model_response"
                /\ messages = pre \o <<UserMsg, Msg(RoleAssistant, result)>>
             \/ /\ LastRec.type \in {"http_error", "exception"}
                /\ messages = pre \o <<UserMsg>>

\* an error raised while the stream is consumed, after a piece
C9_Witness ==
    /\ pc = "returned"
    /\ LastRec.type = "exception"
    /\ full_response # <<>>

\* C10: chat does not raise: it returns the assembled content, or an error
\* text that holds the message of the error.
C10_NoRaise ==
    /\ pc # "crashed"
    /\ pc = "returned" =>
          \/ /\ LastRec.type = "model_response"
             /\ result = full_response
          \/ /\ LastRec.type = "http_error"
             /\ result = ErrorPrefix \o StatusText(response.status) \o ErrorSep
                            \o response.body
          \/ /\ LastRec.type = "exception"
             /\ \E m \in {ErrConnection, ErrBroken, ErrNotIterable} :
                   result = SorryPrefix \o m

\* the connection breaks in the middle of the stream
C10_Witness ==
    /\ pc = "returned"
    /\ result = SorryPrefix \o ErrBroken
    /\ sent # <<>>

\* C11: a load never raises to main and leaves the seed transcript whenever
\* the file is absent, cannot be read, or does not hold parseable JSON.
C11_LoadFailsClosed ==
    last \in {"load_missing", "load_error"} =>
        /\ pc = "idle"
        /\ messages = create_initial_messages

\* C12: a save that cannot write the file does not raise: the program keeps
\* running, main being at its prompt again.
C12_SaveFailureSignalled ==
    last = "save_error" => pc = "idle"

\* C13: in a successful turn the measured response time spans the request
\* and the reading of the whole stream: it is the time from start_time to
\* the moment the last line was read.
C13_TimingSpansStream ==
    (pc = "returned" /\ LastRec.type = "model_response") => response_time = clock

C15_SummaryContent ==
    last = "summary" =>
        LET n == Len(before)
            k == IF n < 5 THEN n ELSE 5
            text == messages[1].content
            label == Len(SummaryLabel)
            frag(i) == LET c == before[n - k + i].content
                       IN  SubSeq(c, 1, IF Len(c) < 50 THEN Len(c) ELSE 50)
                               \o <<".", ".", ".">>
            start[i \in 1..k] ==
                IF i = 1 THEN label + 1 ELSE start[i - 1] + Len(frag(i - 1)) + 1
        IN  /\ Len(text) = start[k] + Len(frag(k)) - 1
            /\ SubSeq(text, 1, label) = SummaryLabel
            /\ \A i \in 1..k :
                  /\ SubSeq(text, start[i], start[i] + Len(frag(i)) - 1) = frag(i)
                  /\ Len(frag(i)) <= 53
                  /\ i > 1 => text[start[i] - 1] = " "

\* five kept messages, a content of 2 characters and one of 52 among them
C15_Witness ==
    /\ last = "summary"
    /\ Len(before) >= 5
    /\ \E i, j \in (Len(before) - 4)..Len(before) :
          /\ Len(before[i].content) = 2
          /\ Len(before[j].content) = 52

Outcomes == {"model_response", "http_error", "exception"}

\* C16: the log is, turn after turn, a user_input record and then one outcome
\* record (the second one missing only while the turn is in flight), two
\* records for every turn started; a step never changes the log but by
\* adding one record at its end, and that record carries the session id of
\* the running session and the model name.
C16_LogPairs ==
    /\ [](/\ Len(log) = 2 * (MaxTurns - turns_left) - (IF InCall THEN 1 ELSE 0)
          /\ \A i \in 1..Len(log) :
                /\ i % 2 = 1 => log[i].type = "user_input"
                /\ i % 2 = 0 => /\ log[i].type \in Outcomes
                                /\ log[i].session_id = log[i - 1].session_id)
    /\ [][\/ log' = log
          \/ /\ Len(log') = Len(log) + 1
             /\ SubSeq(log', 1, Len(log)) = log
             /\ log'[Len(log')].session_id = session_id
             /\ log'[Len(log')].model = <<"l","l","a","m","a","3",".","2">>]_vars

\* a second session that has logged a turn, after a first one with a
\* successful turn and a failed one
C16_Witness ==
    /\ session_id = 2
    /\ pc = "idle"
    /\ log # <<>>
    /\ LastRec.session_id = 2
    /\ \E i, j \in 1..Len(log) :
          /\ log[i].type = "model_response" /\ log[i].session_id = 1
          /\ log[j].type \in {"http_error", "exception"} /\ log[j].session_id = 1

\* C17: no step of a chat call changes or removes a message that is in the
\* transcript; when the call returns, the transcript is the one the call
\* found, then the user message, then, after a successful turn only, the
\* assistant message: 2 messages more on success, 1 on a status that is
\* not 200 and on an exception.
C17_OnlyAppends ==
    /\ [][(pc \in {"idle", "request", "streaming"}
              /\ pc' \in {"request", "streaming", "returned"}) =>
                (/\ Len(messages') >= Len(messages)
                 /\ SubSeq(messages', 1, Len(messages)) = messages)]_vars
    /\ [](pc = "returned" =>
             /\ Len(messages) > Len(pre)
             /\ SubSeq(messages, 1, Len(pre)) = pre
             /\ messages[Len(pre) + 1] = Msg(RoleUser, user_input)
             /\ LastRec.type = "model_response" =>
                    /\ Len(messages) = Len(pre) + 2
                    /\ messages[Len(pre) + 2] = Msg(RoleAssistant, result)
             /\ LastRec.type \in {"http_error", "exception"} =>
                    Len(messages) = Len(pre) + 1)

\* a failed turn after a successful one and a failed one
C17_Witness ==
    /\ pc = "returned"
    /\ Len(pre) = 4
    /\ pre[3].role = RoleAssistant
    /\ LastRec.type = "http_error"
    /\ Len(messages) = 5

InFlight == pc \in {"request", "streaming", "returned"}

\* C18: a turn is started only while main is at its prompt, and while a turn
\* is in flight no other turn is started and no 'summary', 'save', 'load' or
\* 'exit' is done; every turn that was started comes back to the prompt, a
\* turn over, if the backend answers or fails in the end and the stream ends.
C18_TwoStates ==
    /\ [][InFlight =>
             (/\ pc' \in {"request", "streaming", "returned", "idle"}
              /\ last' \in {"chat", "turn", "auto"}
              /\ Len(log') > Len(log) => log'[Len(log')].type # "user_input"
              /\ <<file_exists', file', before'>> = <<file_exists, file, before>>
                     \/ last' = "auto")]_vars
    /\ [][(Len(log') > Len(log) /\ log'[Len(log')].type = "user_input") =>
             (pc = "idle" /\ pc' = "request")]_vars
    /\ (pc = "request") ~> (pc = "idle" /\ last \in {"turn", "auto"})

\* back at the prompt after a turn that failed while the stream was read, in
\* a session that saved before
C18_Witness ==
    /\ pc = "idle"
    /\ last = "turn"
    /\ file_exists
    /\ LastRec.type \in {"http_error", "exception"}
    /\ LastRec.session_id = session_id

\* C19: in the command loop (turns of every outcome, summary, save, load of a
\* file that is absent or was written by save) the transcript has at most 10
\* messages whenever the program waits at the prompt, never more than 12 at
\* any point, and at most 11 when the payload of a request is sent.
C19_LengthBound ==
    /\ Len(messages) <= AutoThreshold + 2
    /\ AtPrompt => Len(messages) <= AutoThreshold
    /\ pc = "request" => Len(messages) <= AutoThreshold + 1

\* a turn that started from a full transcript of 10 has reached 12 messages
C19_Witness ==
    /\ pc = "returned"
    /\ Len(pre) = AutoThreshold
    /\ Len(messages) = AutoThreshold + 2

\* the indices of the system messages of a transcript
SystemAt(msgs) == {i \in DOMAIN msgs : msgs[i].role = RoleSystem}

\* C20: right after an automatic summarization the transcript has one system
\* message, the new summary at the front, followed by 5 messages of role user
\* or assistant; none of the 5 messages it kept and summarized was a system
\* message, whatever commands came before.
C20_AutoSummaryShape ==
    last = "auto" =>
        /\ Len(messages) = KeepLast + 1
        /\ SystemAt(messages) = {1}
        /\ Prefix(messages[1].content, Len(SummaryLabel)) = SummaryLabel
        /\ \A i \in 2..Len(messages) : messages[i].role \in {RoleUser, RoleAssistant}
        /\ Len(before) > AutoThreshold
        /\ \A i \in (Len(before) - KeepLast + 1)..Len(before) :
               /\ before[i].role # RoleSystem
               /\ messages[i - Len(before) + KeepLast + 1] = before[i]

\* an automatic summarization of a transcript that held two system messages,
\* left there by a summary command on a short transcript
C20_Witness ==
    /\ last = "auto"
    /\ Cardinality(SystemAt(before)) >= 2

====
